---- MODULE Spec2Model ----
(***************************************************************************)
(* The GameRoom durable object (the real-time game-session coordinator)    *)
(* of the trivia game, as a state machine: one action per handler or       *)
(* scheduled callback.  The runtime delivers requests, WebSocket events    *)
(* and timer callbacks to one GameRoom one at a time, so every handler is  *)
(* one atomic step.                                                        *)
(***************************************************************************)
EXTENDS Integers, Sequences, FiniteSets, TLC

(* ------------------------------ bounds -------------------------------- *)
\* Most players a roster is grown to (handleInit and handleJoin add one each).
MaxRoster == 2
\* Number of entries of the question bank that are modelled (the bank has 110); an
\* init request carries a questionCount of 1..BankSize.
BankSize == 2
\* Most start commands that are accepted in one behaviour.
MaxStarts == 2
\* Most WebSocket connections that are opened in one behaviour.
MaxSockets == 1
\* Most entries of state.answers.
MaxAnswers == 2
\* Number of rows of the questions table that are modelled.
DbQuestions == 4
\* Most requests to the HTTP answer route that are processed at the same time.
MaxRequests == 2

(* -------------------------- program constants ------------------------- *)
\* nextQuestion: this.state.timer = 15
QuestionSeconds == 15
\* constructor: questionCount: 10
DefaultQuestionCount == 10
\* constructor / handleInit default: maxPlayers = 4
DefaultMaxPlayers == 4
\* endQuestion: Math.floor(1000 + timeBonus)
RoomBasePoints == 1000
\* endQuestion: Math.max(0, 1000 - answerData.timeTakenMs)
RoomBonusWindowMs == 1000

(* ------------------------- encodings of JS values --------------------- *)
\* null (player.ws, state.timer) and an id that is not a key of state.players
Null == 0
NoTimer == -1
\* undefined: a field missing from a parsed message, or Array.prototype.size
Undefined == -2
\* NaN as a score or as points
NaN == -3

VARIABLES
    status,                  \* state.status
    players,                 \* state.players: sequence in insertion order, id = position
    maxPlayers,              \* state.maxPlayers
    questionCount,           \* state.questionCount
    currentQuestionIndex,    \* state.currentQuestionIndex (0-based)
    questions,               \* state.questions: sequence of question ids
    answers,                 \* state.answers: sequence of Answer records
    currentQuestionAnswers,  \* state.currentQuestionAnswers: set of player ids
    timer,                   \* state.timer: NoTimer or seconds
    timerInterval,           \* this.timerInterval is set (an interval is running)
    pendingNext,             \* number of scheduled setTimeout(() => this.nextQuestion())
    sockets,                 \* accepted WebSockets whose readyState is OPEN
    nextWs,                  \* identity of the next WebSocket the runtime creates
    displayIds,              \* ids handed to join requests that carried isDisplay: true
    starts,                  \* number of start commands accepted so far
    sent,                    \* what the last event sent: its HTTP response, then its
                             \* WebSocket messages in order
    playerAnswers,           \* D1 table player_answers of one game, in id order
    dbScore,                 \* D1 column game_players.score of that game's player
    requests                 \* the invocations of the answer route's POST handler

vars == <<status, players, maxPlayers, questionCount, currentQuestionIndex, questions,
          answers, currentQuestionAnswers, timer, timerInterval, pendingNext, sockets,
          nextWs, displayIds, starts, sent, playerAnswers, dbScore, requests>>

\* The D1 rows that the HTTP answer route reads and writes, and its invocations
db == <<playerAnswers, dbScore, requests>>

\* No invocation of the POST handler in this slot
Idle == [pc |-> "idle", playerId |-> 0, questionId |-> 0, answer |-> "",
         timeTakenMs |-> 0, score |-> 0, isCorrect |-> FALSE, pointsEarned |-> 0]

\* The fields of GameState and of GameRoom
core == <<status, players, maxPlayers, questionCount, currentQuestionIndex, questions,
          answers, currentQuestionAnswers, timer, timerInterval, pendingNext>>

(* ------------------------------ helpers ------------------------------- *)
Max(a, b) == IF a >= b THEN a ELSE b
Min(a, b) == IF a <= b THEN a ELSE b

\* The question bank of loadQuestions: correctAnswer of the entries with id 1..4
BankCorrectAnswer == <<"C", "B", "D", "C">>

\* answer: null of an 'answer' message
NullAnswer == "null"

\* JS number arithmetic with NaN
Add(a, b) == IF a = NaN \/ b = NaN THEN NaN ELSE a + b
Geq(a, b) == a # NaN /\ b # NaN /\ a >= b

\* state.players.get(id) is defined
Known(id) == id \in 1..Len(players)
\* player?.isHost
IsHost(id) == Known(id) /\ players[id].isHost

\* broadcast that sends to every accepted open socket, whoever holds it
RecipientsAllSockets(pl) == sockets

\* broadcast: the sockets of players with player.ws && player.ws.readyState === 1
Recipients(pl) == {pl[i].ws : i \in 1..Len(pl)} \cap sockets
Msg(type, n, to) == [type |-> type, n |-> n, to |-> to]
broadcast(pl, type, n) == Msg(type, n, Recipients(pl))
\* broadcastState: one 'state' message
broadcastState(pl) == broadcast(pl, "state", Len(pl))

\* Response.json(..., {status: code}) to the caller of an HTTP endpoint
Http(code) == Msg("http", code, {})

\* loadQuestions: shuffle the bank, keep the first questionCount entries
loadQuestions ==
    LET k == Min(questionCount, BankSize)
    IN  {s \in [1..k -> 1..BankSize] : \A i, j \in 1..k : i # j => s[i] # s[j]}

\* endQuestion: the points of one correct answer
RoomPoints(timeTakenMs) ==
    IF timeTakenMs = Undefined THEN NaN
    ELSE RoomBasePoints + Max(0, RoomBonusWindowMs - timeTakenMs)

\* endQuestion: what the loop over currentAnswers adds to the score of player pid
RECURSIVE ScoreOf(_, _, _, _)
ScoreOf(score, ans, qid, pid) ==
    IF ans = <<>> THEN score
    ELSE LET a == Head(ans)
         IN  ScoreOf(IF a.questionId = qid /\ a.playerId = pid /\ a.isCorrect
                        THEN Add(score, RoomPoints(a.timeTakenMs))
                        ELSE score,
                     Tail(ans), qid, pid)

(* ------------------------- src/lib/scoring.ts ------------------------- *)
\* defaultScoringConfig
basePoints == 100
speedBonusPerSecond == 10
streakBonus == 50
streakThreshold == 3

\* Math.ceil(a / b) for b > 0
CeilDiv(a, b) == -((-a) \div b)

\* calculatePoints(timeTakenMs, timeLimit, consecutiveCorrect) with the default config
calculatePoints(timeTakenMs, timeLimit, consecutiveCorrect) ==
    LET secondsTaken == CeilDiv(timeTakenMs, 1000)
        secondsRemaining == Max(0, timeLimit - secondsTaken)
    IN  basePoints + secondsRemaining * speedBonusPerSecond
            + (IF consecutiveCorrect >= streakThreshold THEN streakBonus ELSE 0)

(* ------------------------------- Init --------------------------------- *)
Init ==
    /\ status = "lobby"
    /\ players = <<>>
    /\ maxPlayers = DefaultMaxPlayers
    /\ questionCount = DefaultQuestionCount
    /\ currentQuestionIndex = 0
    /\ questions = <<>>
    /\ answers = <<>>
    /\ currentQuestionAnswers = {}
    /\ timer = NoTimer
    /\ timerInterval = FALSE
    /\ pendingNext = 0
    /\ sockets = {}
    /\ nextWs = 1
    /\ displayIds = {}
    /\ starts = 0
    /\ sent = <<>>
    /\ playerAnswers = <<>>
    /\ dbScore = 0
    /\ requests = [r \in 1..MaxRequests |-> Idle]

(* --------------------------- question cycle --------------------------- *)
\* endGame
endGame(out) ==
    /\ status' = "finished"
    /\ sent' = out \o <<broadcast(players, "game_ended", 0)>>
    /\ UNCHANGED <<players, currentQuestionIndex, answers, currentQuestionAnswers,
                   timer, timerInterval>>

\* startQuestionTimer that clears a running interval and starts none
startQuestionTimerCleared == timerInterval' = FALSE

\* startQuestionTimer: clear a running interval, start a new one
startQuestionTimer == timerInterval' = TRUE

\* nextQuestion
nextQuestion(out) ==
    IF currentQuestionIndex >= Len(questions)
    THEN endGame(out)
    ELSE /\ currentQuestionAnswers' = {}
         /\ timer' = QuestionSeconds
         /\ sent' = out \o <<broadcast(players, "question", currentQuestionIndex + 1)>>
         /\ startQuestionTimer
         /\ UNCHANGED <<status, players, currentQuestionIndex, answers>>

\* endQuestion, entered with state.answers = ans; sets players, currentQuestionIndex,
\* timerInterval, pendingNext and sent.  When questions[currentQuestionIndex] is
\* undefined the first use of question throws, after the interval was cleared.
endQuestion(ans, out) ==
    /\ timerInterval' = FALSE
    /\ IF currentQuestionIndex >= Len(questions)
       THEN /\ sent' = out
            /\ UNCHANGED <<players, currentQuestionIndex, pendingNext>>
       ELSE LET qid == questions[currentQuestionIndex + 1]
                scored == [i \in 1..Len(players) |->
                              [players[i] EXCEPT !.score = ScoreOf(@, ans, qid, i)]]
            IN  /\ players' = scored
                /\ sent' = out \o <<broadcast(scored, "results", currentQuestionIndex + 1)>>
                /\ currentQuestionIndex' = currentQuestionIndex + 1
                /\ pendingNext' = pendingNext + 1

\* The callback of setTimeout(() => this.nextQuestion(), ...)
NextQuestionTimeout ==
    /\ pendingNext > 0
    /\ pendingNext' = pendingNext - 1
    /\ nextQuestion(<<>>)
    /\ UNCHANGED <<maxPlayers, questionCount, questions, sockets, nextWs, displayIds, starts>>

\* state.answers.size in the interval callback: state.answers is an array
answersSize == Undefined

\* An interval callback that counts the timer down by two
TimerTickSkipsSecond ==
    /\ timerInterval
    /\ IF timer = NoTimer \/ timer <= 0
       THEN /\ endQuestion(answers, <<>>)
            /\ UNCHANGED timer
       ELSE /\ timer' = timer - 2
            /\ sent' = <<broadcast(players, "timer", timer - 2)>>
            /\ UNCHANGED <<players, currentQuestionIndex, timerInterval, pendingNext>>
    /\ UNCHANGED <<status, maxPlayers, questionCount, questions, answers,
                   currentQuestionAnswers, sockets, nextWs, displayIds, starts>>

\* The callback of setInterval in startQuestionTimer
TimerTick ==
    /\ timerInterval
    /\ IF timer = NoTimer \/ timer <= 0
       THEN /\ endQuestion(answers, <<>>)
            /\ UNCHANGED timer
       ELSE /\ timer' = timer - 1
            /\ IF answersSize = Len(players)
               THEN endQuestion(answers, <<broadcast(players, "timer", timer - 1)>>)
               ELSE /\ sent' = <<broadcast(players, "timer", timer - 1)>>
                    /\ UNCHANGED <<players, currentQuestionIndex, timerInterval, pendingNext>>
    /\ UNCHANGED <<status, maxPlayers, questionCount, questions, answers,
                   currentQuestionAnswers, sockets, nextWs, displayIds, starts>>

(* ---------------------------- HTTP handlers --------------------------- *)
\* handleInit
handleInit(qc, mp) ==
    /\ questionCount' = qc
    /\ maxPlayers' = mp
    /\ players' = Append(players, [isHost |-> TRUE, score |-> 0, ws |-> Null])
    /\ sent' = <<Http(200)>>
    /\ UNCHANGED <<status, currentQuestionIndex, questions, answers, currentQuestionAnswers,
                   timer, timerInterval, pendingNext, sockets, nextWs, displayIds, starts>>

\* handleJoin; isDisplay is the field of the request body that the join route drops
handleJoin(isDisplay) ==
    IF status # "lobby"
    THEN /\ sent' = <<Http(400)>>
         /\ UNCHANGED <<core, sockets, nextWs, displayIds, starts>>
    ELSE /\ players' = Append(players, [isHost |-> FALSE, score |-> 0, ws |-> Null])
         /\ displayIds' = IF isDisplay THEN displayIds \cup {Len(players) + 1} ELSE displayIds
         /\ sent' = <<Http(200), broadcastState(players')>>
         /\ UNCHANGED <<status, maxPlayers, questionCount, currentQuestionIndex, questions,
                        answers, currentQuestionAnswers, timer, timerInterval, pendingNext,
                        sockets, nextWs, starts>>

\* handleStart with the host check weakened to "the caller is in the roster"
handleStartAnyPlayer(playerId) ==
    IF ~Known(playerId)
    THEN /\ sent' = <<Http(403)>>
         /\ UNCHANGED <<core, sockets, nextWs, displayIds, starts>>
    ELSE IF Len(players) < 2
    THEN /\ sent' = <<Http(400)>>
         /\ UNCHANGED <<core, sockets, nextWs, displayIds, starts>>
    ELSE /\ starts' = starts + 1
         /\ status' = "playing"
         /\ questions' \in loadQuestions
         /\ sent' = <<Http(200), broadcast(players, "game_started", 0)>>
         /\ pendingNext' = pendingNext + 1
         /\ UNCHANGED <<players, maxPlayers, questionCount, currentQuestionIndex, answers,
                        currentQuestionAnswers, timer, timerInterval, sockets, nextWs,
                        displayIds>>

\* handleStart
handleStart(playerId) ==
    IF ~IsHost(playerId)
    THEN /\ sent' = <<Http(403)>>
         /\ UNCHANGED <<core, sockets, nextWs, displayIds, starts>>
    ELSE IF Len(players) < 2
    THEN /\ sent' = <<Http(400)>>
         /\ UNCHANGED <<core, sockets, nextWs, displayIds, starts>>
    ELSE /\ starts' = starts + 1
         /\ status' = "playing"
         /\ questions' \in loadQuestions
         /\ sent' = <<Http(200), broadcast(players, "game_started", 0)>>
         /\ pendingNext' = pendingNext + 1
         /\ UNCHANGED <<players, maxPlayers, questionCount, currentQuestionIndex, answers,
                        currentQuestionAnswers, timer, timerInterval, sockets, nextWs,
                        displayIds>>

(* -------------------------- WebSocket handlers ------------------------ *)
\* handleWebSocket that attaches the socket but does not send the question in progress
handleWebSocketNoReplay(playerId) ==
    /\ nextWs' = nextWs + 1
    /\ sockets' = sockets \cup {nextWs}
    /\ IF Known(playerId)
       THEN LET attached == [players EXCEPT ![playerId].ws = nextWs]
                state == Msg("state", Len(players),
                             {attached[i].ws : i \in 1..Len(attached)} \cap sockets')
            IN  /\ players' = attached
                /\ sent' = <<Http(101), state>>
       ELSE /\ sent' = <<Http(101)>>
            /\ UNCHANGED players
    /\ UNCHANGED <<status, maxPlayers, questionCount, currentQuestionIndex, questions,
                   answers, currentQuestionAnswers, timer, timerInterval, pendingNext,
                   displayIds, starts>>

\* handleWebSocket with a playerId in the URL
handleWebSocket(playerId) ==
    /\ nextWs' = nextWs + 1
    /\ sockets' = sockets \cup {nextWs}
    /\ IF Known(playerId)
       THEN LET attached == [players EXCEPT ![playerId].ws = nextWs]
                state == Msg("state", Len(players),
                             {attached[i].ws : i \in 1..Len(attached)} \cap sockets')
                replay == IF status = "playing" /\ currentQuestionIndex < Len(questions)
                          THEN <<Msg("question", currentQuestionIndex + 1, {nextWs})>>
                               \o (IF timer # NoTimer
                                   THEN <<Msg("timer", timer, {nextWs})>>
                                   ELSE <<>>)
                          ELSE <<>>
            IN  /\ players' = attached
                /\ sent' = <<Http(101), state>> \o replay
       ELSE /\ sent' = <<Http(101)>>
            /\ UNCHANGED players
    /\ UNCHANGED <<status, maxPlayers, questionCount, currentQuestionIndex, questions,
                   answers, currentQuestionAnswers, timer, timerInterval, pendingNext,
                   displayIds, starts>>

\* webSocketClose that deletes the player instead of clearing player.ws
webSocketCloseRemovesPlayer(ws) ==
    /\ ws \in sockets
    /\ sockets' = sockets \ {ws}
    /\ players' = SelectSeq(players, LAMBDA pl : pl.ws # ws)
    /\ sent' = <<>>
    /\ UNCHANGED <<status, maxPlayers, questionCount, currentQuestionIndex, questions,
                   answers, currentQuestionAnswers, timer, timerInterval, pendingNext,
                   nextWs, displayIds, starts>>

\* webSocketClose that clears player.ws without comparing it with the closed socket
webSocketCloseAnyChannel(ws) ==
    /\ ws \in sockets
    /\ sockets' = sockets \ {ws}
    /\ players' = [i \in 1..Len(players) |-> [players[i] EXCEPT !.ws = Null]]
    /\ sent' = <<>>
    /\ UNCHANGED <<status, maxPlayers, questionCount, currentQuestionIndex, questions,
                   answers, currentQuestionAnswers, timer, timerInterval, pendingNext,
                   nextWs, displayIds, starts>>

\* webSocketClose
webSocketClose(ws) ==
    /\ ws \in sockets
    /\ sockets' = sockets \ {ws}
    /\ players' = [i \in 1..Len(players) |->
                      IF players[i].ws = ws THEN [players[i] EXCEPT !.ws = Null]
                      ELSE players[i]]
    /\ sent' = <<>>
    /\ UNCHANGED <<status, maxPlayers, questionCount, currentQuestionIndex, questions,
                   answers, currentQuestionAnswers, timer, timerInterval, pendingNext,
                   nextWs, displayIds, starts>>

\* handleAnswer, called by webSocketMessage for a message of type 'answer'.  When
\* questions[currentQuestionIndex] is undefined, reading question.correctAnswer throws
\* before anything is stored; webSocketMessage catches it.
handleAnswer(playerId, answer, timeTakenMs) ==
    IF playerId \in currentQuestionAnswers \/ currentQuestionIndex >= Len(questions)
    THEN /\ sent' = <<>>
         /\ UNCHANGED core
    ELSE LET qid == questions[currentQuestionIndex + 1]
             pushed == Append(answers,
                              [playerId |-> playerId, questionId |-> qid, answer |-> answer,
                               isCorrect |-> (answer = BankCorrectAnswer[qid]),
                               timeTakenMs |-> timeTakenMs])
         IN  /\ answers' = pushed
             /\ currentQuestionAnswers' = currentQuestionAnswers \cup {playerId}
             /\ IF Cardinality(currentQuestionAnswers') = Len(players)
                THEN endQuestion(pushed, <<>>)
                ELSE /\ sent' = <<>>
                     /\ UNCHANGED <<players, currentQuestionIndex, timerInterval, pendingNext>>
             /\ UNCHANGED <<status, maxPlayers, questionCount, questions, timer>>

\* webSocketMessage with a string frame that parses to {type: 'answer', ...}
webSocketMessage(playerId, answer, timeTakenMs) ==
    /\ sockets # {}
    /\ handleAnswer(playerId, answer, timeTakenMs)
    /\ UNCHANGED <<sockets, nextWs, displayIds, starts>>

\* webSocketMessage with a frame that is no 'answer' message: a binary frame, a string
\* that is not JSON (JSON.parse throws, caught), a message of an unknown type, a ping
FrameKinds == {"binary", "invalid_json", "unknown_type", "ping"}

webSocketFrame(ws, kind) ==
    /\ ws \in sockets
    /\ sent' = IF kind = "ping" THEN <<Msg("pong", 0, {ws})>> ELSE <<>>
    /\ UNCHANGED <<core, sockets, nextWs, displayIds, starts>>

\* .sort((a, b) => b.score - a.score) of the players: the orders of the roster that
\* the sort can return.  The sort is stable, so players with equal scores keep their
\* roster order; a comparison with a NaN score yields NaN, the comparator is then
\* inconsistent and the place of that player is implementation-defined.
Rankings(pl) ==
    {r \in [1..Len(pl) -> 1..Len(pl)] :
        /\ \A i, j \in 1..Len(pl) : i # j => r[i] # r[j]
        /\ \A i, j \in 1..Len(pl) :
              (i < j /\ pl[r[i]].score # NaN /\ pl[r[j]].score # NaN)
                 => \/ pl[r[i]].score > pl[r[j]].score
                    \/ (pl[r[i]].score = pl[r[j]].score /\ r[i] < r[j])}

\* Math.max(...scores) of handleGetResults (the roster is not empty)
highestScore(pl) ==
    IF \E i \in 1..Len(pl) : pl[i].score = NaN THEN NaN
    ELSE CHOOSE m \in {pl[i].score : i \in 1..Len(pl)} :
             \A i \in 1..Len(pl) : m >= pl[i].score

\* GET /results: handleGetResults computes the statistics and changes nothing
handleGetResults ==
    /\ sent' = <<Http(200)>>
    /\ UNCHANGED <<core, sockets, nextWs, displayIds, starts>>

(* ------------------------------- Next --------------------------------- *)
\* A client knows the ids it was given; 0 stands for any id that is not in the roster.
Ids == 0..Len(players)

\* One event of a room that the create route has initialised (one /init, before any
\* other request).  The caps bound the behaviours that are explored: the roster, the
\* sockets opened, the starts accepted and the answers stored.  qcs, mps, displays,
\* keys and times are the questionCount, maxPlayers, isDisplay, answer and
\* timeTakenMs values that requests carry.
Step(qcs, mps, displays, keys, times, rosterCap, socketCap, startCap, answerCap) ==
    \/ /\ players = <<>>
       /\ \E qc \in qcs, mp \in mps : handleInit(qc, mp)
       /\ UNCHANGED db
    \/ /\ players # <<>>
       /\ status = "lobby" => Len(players) < rosterCap
       /\ \E d \in displays : handleJoin(d)
       /\ UNCHANGED db
    \/ \E p \in Ids :
          /\ (IsHost(p) /\ Len(players) >= 2) => starts < startCap
          /\ handleStart(p)
          /\ UNCHANGED db
    \/ /\ nextWs <= socketCap
       /\ \E p \in Ids : handleWebSocket(p)
       /\ UNCHANGED db
    \/ /\ \E ws \in sockets : webSocketClose(ws)
       /\ UNCHANGED db
    \/ /\ Len(answers) < answerCap
       /\ \E p \in Ids, a \in keys, t \in times : webSocketMessage(p, a, t)
       /\ UNCHANGED db
    \/ /\ NextQuestionTimeout
       /\ UNCHANGED db
    \/ /\ TimerTick
       /\ UNCHANGED db

\* The answer and timeTakenMs values of the 'answer' messages that are explored;
\* Undefined is a message without the field
AnswerKeys == {"C"}
Times == {3000, Undefined}

\* Players only, and every answer message carries a numeric timeTakenMs
Next == Step(1..BankSize, {DefaultMaxPlayers}, {FALSE}, AnswerKeys, Times \ {Undefined},
             MaxRoster, MaxSockets, MaxStarts, MaxAnswers)

Spec == Init /\ [][Next]_vars

\* Big-screen displays join too and answer messages may lack timeTakenMs; the host's
\* start command is accepted once.
NextOneStart == Step(1..BankSize, {DefaultMaxPlayers}, BOOLEAN, AnswerKeys, Times,
                     MaxRoster, MaxSockets, 1, MaxAnswers)

SpecOneStart == Init /\ [][NextOneStart]_vars

\* A create request whose generated room code is the code of a room that has finished
\* a game: /init reaches that room again.
InitAfterGame ==
    /\ status = "finished"
    /\ Len(players) <= MaxRoster
    /\ \E qc \in 1..BankSize : handleInit(qc, DefaultMaxPlayers)
    /\ UNCHANGED db

NextReinit == Next \/ InitAfterGame

SpecReinit == Init /\ [][NextReinit]_vars

\* A room created with maxPlayers = MaxRoster and one question, to which one more
\* player than that may ask to join; one start and one stored answer.
NextSmallRoom == Step({1}, {MaxRoster}, {FALSE}, AnswerKeys, Times \ {Undefined},
                      MaxRoster + 1, MaxSockets, 1, 1)

SpecSmallRoom == Init /\ [][NextSmallRoom]_vars

\* The same collision while a question of the room's game is being asked (and the
\* start cap still lets a start command follow).
InitDuringGame ==
    /\ status = "playing"
    /\ timerInterval
    /\ starts < MaxStarts
    /\ Len(players) <= MaxRoster
    /\ \E qc \in 1..BankSize : handleInit(qc, DefaultMaxPlayers)
    /\ UNCHANGED db

NextReinitPlaying == Next \/ InitDuringGame

SpecReinitPlaying == Init /\ [][NextReinitPlaying]_vars

\* A player whose channel is open connects once more (a second tab, or a reconnect
\* before the old socket has closed).
SecondAttach ==
    /\ nextWs <= MaxSockets + 1
    /\ \E p \in 1..Len(players) :
          /\ players[p].ws \in sockets
          /\ handleWebSocket(p)
    /\ UNCHANGED db

\* One question, one start, one stored answer, and second connections.
NextTwoChannels ==
    \/ Step({1}, {DefaultMaxPlayers}, {FALSE}, AnswerKeys, Times \ {Undefined},
            MaxRoster, MaxSockets, 1, 1)
    \/ SecondAttach

SpecTwoChannels == Init /\ [][NextTwoChannels]_vars

\* The exception of a ws.send(...) that fails, as the last thing an event did
SendFailed(n, ws) == Msg("send_failed", n, {ws})

\* endQuestion in which the send to the channel of player f throws inside broadcast:
\* the interval is cleared and the scores are updated, the players before f in the
\* roster have been sent the results, and the exception leaves endQuestion before
\* currentQuestionIndex++ and setTimeout.
endQuestionThrows(ans, f) ==
    /\ timerInterval' = FALSE
    /\ LET qid == questions[currentQuestionIndex + 1]
           scored == [i \in 1..Len(players) |->
                         [players[i] EXCEPT !.score = ScoreOf(@, ans, qid, i)]]
           reached == {scored[i].ws : i \in 1..(f - 1)} \cap sockets
       IN  /\ players' = scored
           /\ sent' = <<Msg("results", currentQuestionIndex + 1, reached),
                        SendFailed(currentQuestionIndex + 1, scored[f].ws)>>
    /\ UNCHANGED <<currentQuestionIndex, pendingNext>>

\* The interval callback at timer 0 when a send of the results broadcast fails; nothing
\* catches the exception in the callback.
TimerTickSendFails ==
    /\ timerInterval
    /\ timer = NoTimer \/ timer <= 0
    /\ currentQuestionIndex < Len(questions)
    /\ \E f \in 1..Len(players) :
          /\ players[f].ws \in sockets
          /\ endQuestionThrows(answers, f)
    /\ UNCHANGED <<status, maxPlayers, questionCount, questions, answers,
                   currentQuestionAnswers, timer, sockets, nextWs, displayIds, starts>>
    /\ UNCHANGED db

\* One question, one start, one stored answer, second connections, and sends that fail.
NextSendFails == NextTwoChannels \/ TimerTickSendFails

SpecSendFails == Init /\ [][NextSendFails]_vars

\* Frames of every kind arrive on the open sockets; one question, one start, one
\* stored answer; answer messages may lack timeTakenMs.
OtherFrames ==
    /\ \E ws \in sockets, kind \in FrameKinds : webSocketFrame(ws, kind)
    /\ UNCHANGED db

NextFrames ==
    \/ Step({1}, {DefaultMaxPlayers}, {FALSE}, AnswerKeys, Times,
            MaxRoster, MaxSockets, 1, 1)
    \/ OtherFrames

SpecFrames == Init /\ [][NextFrames]_vars

\* Results queries arrive at any time; one question, one start; answer messages may
\* lack timeTakenMs.
GetResults ==
    /\ players # <<>>
    /\ handleGetResults
    /\ UNCHANGED db

NextResults ==
    \/ Step({1}, {DefaultMaxPlayers}, {FALSE}, AnswerKeys, Times,
            MaxRoster, MaxSockets, 1, MaxAnswers)
    \/ GetResults

SpecResults == Init /\ [][NextResults]_vars

\* The runtime runs a scheduled callback once it is due: the interval callback while
\* an interval is set, the nextQuestion timeout while one is pending.
Fairness ==
    /\ WF_vars(TimerTick /\ UNCHANGED db)
    /\ WF_vars(NextQuestionTimeout /\ UNCHANGED db)

SpecFair == Init /\ [][NextOneStart]_vars /\ Fairness

(* ------------------- the HTTP answer route (D1) ----------------------- *)
\* games.time_per_question: default(15)
timePerQuestion == 15

\* questions.correct_answer of the seeded rows 1..5
SeedCorrectAnswer == <<"C", "B", "C", "B", "C">>

\* The game has one row in game_players, with this id
DbPlayer == 1

\* The rows of player pid, newest first (ORDER BY id DESC)
RowsDesc(rows, pid) ==
    LET mine == SelectSeq(rows, LAMBDA r : r.playerId = pid)
    IN  [i \in 1..Len(mine) |-> mine[Len(mine) + 1 - i]]

\* The loop over recentAnswers: the length of the leading run of correct rows
RECURSIVE LeadingCorrect(_)
LeadingCorrect(rows) ==
    IF rows = <<>> \/ ~Head(rows).isCorrect THEN 0
    ELSE 1 + LeadingCorrect(Tail(rows))

\* .limit(2)
RecentLimit == 2

\* POST /api/games/$roomCode/answer for the room code of the game
answerRoute(playerId, questionId, answer, timeTakenMs) ==
    IF playerId # DbPlayer
    THEN /\ sent' = <<Http(404)>>
         /\ UNCHANGED db
    ELSE IF \E i \in 1..Len(playerAnswers) :
               playerAnswers[i].playerId = playerId /\ playerAnswers[i].questionId = questionId
    THEN /\ sent' = <<Http(400)>>
         /\ UNCHANGED db
    ELSE IF questionId \notin 1..DbQuestions
    THEN /\ sent' = <<Http(404)>>
         /\ UNCHANGED db
    ELSE LET isCorrect == answer = SeedCorrectAnswer[questionId]
             recentAnswers == SubSeq(RowsDesc(playerAnswers, playerId), 1,
                                     Min(RecentLimit, Len(RowsDesc(playerAnswers, playerId))))
             consecutiveCorrect == LeadingCorrect(recentAnswers)
             pointsEarned == IF isCorrect
                             THEN calculatePoints(timeTakenMs, timePerQuestion,
                                                  consecutiveCorrect)
                             ELSE 0
         IN  /\ playerAnswers' = Append(playerAnswers,
                                        [playerId |-> playerId, questionId |-> questionId,
                                         isCorrect |-> isCorrect,
                                         pointsEarned |-> pointsEarned,
                                         timeTakenMs |-> timeTakenMs])
             /\ dbScore' = dbScore + pointsEarned
             /\ sent' = <<Http(200)>>
             /\ UNCHANGED requests

\* Requests to the answer route of a game whose room is idle
NextRoute ==
    /\ \E p \in {0, DbPlayer}, q \in 0..DbQuestions, a \in {"B", "C"}, t \in {3000, 15000} :
          answerRoute(p, q, a, t)
    /\ UNCHANGED <<core, sockets, nextWs, displayIds, starts>>

SpecRoute == Init /\ [][NextRoute]_vars

\* The POST handler one await at a time: every query is one D1 statement, and other
\* invocations run between the awaits.
\* request.json(): a request arrives
receive(r, playerId, questionId, answer, timeTakenMs) ==
    /\ requests[r].pc = "idle"
    /\ requests' = [requests EXCEPT ![r] =
                        [Idle EXCEPT !.pc = "getPlayer", !.playerId = playerId,
                                     !.questionId = questionId, !.answer = answer,
                                     !.timeTakenMs = timeTakenMs]]
    /\ sent' = <<>>
    /\ UNCHANGED <<playerAnswers, dbScore>>

\* const [player] = await db.select().from(gamePlayers)...
getPlayer(r) ==
    /\ requests[r].pc = "getPlayer"
    /\ IF requests[r].playerId # DbPlayer
       THEN /\ requests' = [requests EXCEPT ![r] = Idle]
            /\ sent' = <<Http(404)>>
       ELSE /\ requests' = [requests EXCEPT ![r].pc = "checkExisting", ![r].score = dbScore]
            /\ sent' = <<>>
    /\ UNCHANGED <<playerAnswers, dbScore>>

\* const existingAnswer = await db.select().from(playerAnswers)...
checkExisting(r) ==
    /\ requests[r].pc = "checkExisting"
    /\ IF \E i \in 1..Len(playerAnswers) :
             /\ playerAnswers[i].playerId = requests[r].playerId
             /\ playerAnswers[i].questionId = requests[r].questionId
       THEN /\ requests' = [requests EXCEPT ![r] = Idle]
            /\ sent' = <<Http(400)>>
       ELSE /\ requests' = [requests EXCEPT ![r].pc = "getQuestion"]
            /\ sent' = <<>>
    /\ UNCHANGED <<playerAnswers, dbScore>>

\* const [question] = await db.select().from(questions)...; isCorrect
getQuestion(r) ==
    /\ requests[r].pc = "getQuestion"
    /\ IF requests[r].questionId \notin 1..DbQuestions
       THEN /\ requests' = [requests EXCEPT ![r] = Idle]
            /\ sent' = <<Http(404)>>
       ELSE LET isCorrect == requests[r].answer = SeedCorrectAnswer[requests[r].questionId]
            IN  /\ requests' = [requests EXCEPT
                                   ![r].isCorrect = isCorrect,
                                   ![r].pc = IF isCorrect THEN "getStreak" ELSE "insert"]
                /\ sent' = <<>>
    /\ UNCHANGED <<playerAnswers, dbScore>>

\* const recentAnswers = await db.select()...limit(2); calculatePoints
getStreak(r) ==
    /\ requests[r].pc = "getStreak"
    /\ LET rows == RowsDesc(playerAnswers, requests[r].playerId)
           recentAnswers == SubSeq(rows, 1, Min(RecentLimit, Len(rows)))
       IN  requests' = [requests EXCEPT
                           ![r].pointsEarned =
                               calculatePoints(requests[r].timeTakenMs, timePerQuestion,
                                               LeadingCorrect(recentAnswers)),
                           ![r].pc = "insert"]
    /\ sent' = <<>>
    /\ UNCHANGED <<playerAnswers, dbScore>>

\* await db.insert(playerAnswers).values({...})
insertAnswer(r) ==
    /\ requests[r].pc = "insert"
    /\ playerAnswers' = Append(playerAnswers,
                               [playerId |-> requests[r].playerId,
                                questionId |-> requests[r].questionId,
                                isCorrect |-> requests[r].isCorrect,
                                pointsEarned |-> requests[r].pointsEarned,
                                timeTakenMs |-> requests[r].timeTakenMs])
    /\ requests' = [requests EXCEPT ![r].pc = "update"]
    /\ sent' = <<>>
    /\ UNCHANGED dbScore

\* const newScore = player.score + pointsEarned; await db.update(gamePlayers).set(...)
updateScore(r) ==
    /\ requests[r].pc = "update"
    /\ dbScore' = requests[r].score + requests[r].pointsEarned
    /\ requests' = [requests EXCEPT ![r] = Idle]
    /\ sent' = <<Http(200)>>
    /\ UNCHANGED playerAnswers

\* Up to MaxRequests invocations of the POST handler for one player, interleaved at
\* their awaits; the room is idle.
NextConcurrent ==
    \/ /\ Len(playerAnswers) < DbQuestions
       /\ \E r \in 1..MaxRequests, q \in 1..2, a \in {"B", "C"} :
             receive(r, DbPlayer, q, a, 3000)
       /\ UNCHANGED <<core, sockets, nextWs, displayIds, starts>>
    \/ /\ \E r \in 1..MaxRequests : getPlayer(r)
       /\ UNCHANGED <<core, sockets, nextWs, displayIds, starts>>
    \/ /\ \E r \in 1..MaxRequests : checkExisting(r)
       /\ UNCHANGED <<core, sockets, nextWs, displayIds, starts>>
    \/ /\ \E r \in 1..MaxRequests : getQuestion(r)
       /\ UNCHANGED <<core, sockets, nextWs, displayIds, starts>>
    \/ /\ \E r \in 1..MaxRequests : getStreak(r)
       /\ UNCHANGED <<core, sockets, nextWs, displayIds, starts>>
    \/ /\ \E r \in 1..MaxRequests : insertAnswer(r)
       /\ UNCHANGED <<core, sockets, nextWs, displayIds, starts>>
    \/ /\ \E r \in 1..MaxRequests : updateScore(r)
       /\ UNCHANGED <<core, sockets, nextWs, displayIds, starts>>

SpecConcurrent == Init /\ [][NextConcurrent]_vars

(* ------------------------------ claims -------------------------------- *)
\* The roster players that have not joined as a display
NonSpectators == {i \in 1..Len(players) : i \notin displayIds}

\* An answering window is open from the broadcast of a question until endQuestion
WindowOpen == timerInterval

\* C1: each player has at most one Answer recorded per question: state.answers never
\* holds two entries of the same roster player for the same question.
C1_OneAnswerPerPlayerPerQuestion ==
    \A i, j \in 1..Len(answers) :
        (i # j /\ Known(answers[i].playerId) /\ answers[i].playerId = answers[j].playerId)
            => answers[i].questionId # answers[j].questionId

\* C2: in every reachable state currentQuestionIndex is at most questions.length, and
\* no event decreases currentQuestionIndex (the initial state has index 0 and no
\* questions, so it is enough to look at the state after each event).
C2_IndexBoundedAndMonotone ==
    [][/\ currentQuestionIndex' <= Len(questions')
       /\ currentQuestionIndex' >= currentQuestionIndex]_vars

\* The second half of C2 alone: no event decreases currentQuestionIndex.
IndexNeverDecreases == [][currentQuestionIndex' >= currentQuestionIndex]_vars

PhaseRank(st) == CASE st = "lobby" -> 0 [] st = "playing" -> 1 [] st = "finished" -> 2

\* C3: the phase only moves forward, Lobby -> Playing -> Finished: no event moves it
\* to an earlier phase.
C3_PhaseMovesForward == [][PhaseRank(status') >= PhaseRank(status)]_vars

\* C4: a start command received while the phase is not Lobby is rejected: the session
\* state, the scheduled timers included, is unchanged and no game_started is broadcast.
C4_StartOutsideLobbyRejected ==
    [][\A p \in Ids :
          (status # "lobby" /\ handleStart(p))
              => /\ UNCHANGED core
                 /\ \A k \in 1..Len(sent') : sent'[k].type # "game_started"]_vars

\* C5: a start command whose playerId is not the host (another player or an unknown
\* id) is rejected with 403 whatever the size of the roster, and all session state is
\* unchanged.
C5_StartByNonHostRejected ==
    [][\A p \in Ids :
          (~IsHost(p) /\ handleStart(p))
              => /\ UNCHANGED <<core, sockets, nextWs, displayIds>>
                 /\ sent' = <<Http(403)>>]_vars

\* C5 witness: a start command was answered 403 in a lobby of two players, one of
\* them not the host (the rejection leaves the lobby as it was).
C5_Witness ==
    /\ sent = <<Http(403)>>
    /\ status = "lobby"
    /\ Len(players) >= 2
    /\ \E i \in 1..Len(players) : ~players[i].isHost

\* C6: a start command from the host while fewer than two non-spectator players are in
\* the roster is rejected and the phase remains Lobby.
C6_StartNeedsTwoNonSpectators ==
    [][\A p \in Ids :
          (status = "lobby" /\ IsHost(p) /\ Cardinality(NonSpectators) < 2 /\ handleStart(p))
              => status' = "lobby"]_vars

\* Between a question's results and the next question's broadcast
Revealing ==
    status = "playing" /\ ~WindowOpen /\ currentQuestionIndex > 0 /\ pendingNext > 0

\* C7: an answer submission received when no answering window is open (phase Lobby,
\* phase Finished, or Revealing) changes no session state and broadcasts nothing.
C7_AnswerOutsideWindowIgnored ==
    [][\A p \in Ids, a \in AnswerKeys, t \in Times :
          ((status \in {"lobby", "finished"} \/ Revealing) /\ webSocketMessage(p, a, t))
              => /\ UNCHANGED core
                 /\ sent' = <<>>]_vars

\* C8: an answer submission whose playerId is not in the roster changes no session
\* state: it is not recorded, it is not counted and it does not end the question.
C8_UnknownPlayerAnswerIgnored ==
    [][\A a \in AnswerKeys, t \in Times :
          webSocketMessage(Null, a, t) => UNCHANGED core]_vars

\* C9: no player's score ever decreases: after every event every player's score is
\* greater than or equal to the score before it.
C9_ScoreNeverDecreases ==
    [][\A i \in 1..Len(players) : Geq(players'[i].score, players[i].score)]_vars

\* The answers of player pid to question qid in the array ans
AnswersOf(ans, qid, pid) ==
    SelectSeq(ans, LAMBDA a : a.questionId = qid /\ a.playerId = pid)

\* The canonical points of one Answer, streak aside: 0 when incorrect, else
\* basePoints + speedBonusPerSecond * max(0, secondsPerQuestion - ceil(elapsedMs/1000))
CanonicalPoints(a) ==
    IF a.isCorrect THEN calculatePoints(a.timeTakenMs, QuestionSeconds, 0) ELSE 0

\* C10: when a question is scored, a player with one Answer (with an elapsed time) gets
\* the canonical points of that Answer, and a player without an Answer gets 0.
C10_PointsFollowCanonicalFormula ==
    [][currentQuestionIndex' = currentQuestionIndex + 1 =>
          \A i \in 1..Len(players) :
              LET mine == AnswersOf(answers', questions[currentQuestionIndex + 1], i)
              IN  /\ Len(mine) = 0 => players'[i].score = players[i].score
                  /\ (Len(mine) = 1 /\ mine[1].timeTakenMs # Undefined)
                        => players'[i].score = Add(players[i].score, CanonicalPoints(mine[1]))
      ]_vars

\* The number of consecutive correct answers at the end of a player's history
Streak(rows, pid) == LeadingCorrect(RowsDesc(rows, pid))

\* C11: a correct answer earns the streak bonus exactly when the player's immediately
\* preceding consecutive correct answers plus one reach streakThreshold (an incorrect
\* answer in between restarts the count): the points of a newly stored correct answer
\* are the points without a streak, plus streakBonus exactly in that case.
C11_StreakBonusFromThirdCorrect ==
    [][Len(playerAnswers') = Len(playerAnswers) + 1 =>
          LET row == playerAnswers'[Len(playerAnswers')]
          IN  row.isCorrect =>
                 row.pointsEarned =
                     calculatePoints(row.timeTakenMs, timePerQuestion, 0)
                       + (IF Streak(playerAnswers, row.playerId) + 1 >= streakThreshold
                          THEN streakBonus ELSE 0)]_vars

\* The first half of C12 alone: a join outside the lobby is answered 400, changes no
\* session state and broadcasts nothing.
JoinOutsideLobbyRejected ==
    [][\A d \in BOOLEAN :
          (status # "lobby" /\ handleJoin(d))
              => /\ UNCHANGED core
                 /\ sent' = <<Http(400)>>]_vars

\* C12: a join request received when the phase is not Lobby is rejected with an error,
\* leaves the roster unchanged and broadcasts no roster; and no event at all changes
\* the set of players once the phase has left Lobby.
C12_RosterFixedOutsideLobby ==
    [][/\ \A d \in BOOLEAN :
             (status # "lobby" /\ handleJoin(d))
                 => /\ UNCHANGED core
                    /\ sent' = <<Http(400)>>
       /\ status # "lobby" => Len(players') = Len(players)]_vars

\* C13: a join request received when the number of non-spectator players already
\* equals maxPlayers is rejected with an error and leaves the roster unchanged, and in
\* every state after an event the number of non-spectator players is at most maxPlayers.
C13_RosterWithinMaxPlayers ==
    [][/\ \A d \in BOOLEAN :
             (status = "lobby" /\ Cardinality(NonSpectators) >= maxPlayers /\ handleJoin(d))
                 => /\ UNCHANGED core
                    /\ sent'[1].n >= 400
       /\ Cardinality(NonSpectators') <= maxPlayers']_vars

\* The players with isHost = true
Hosts == {i \in 1..Len(players) : players[i].isHost}

\* C14: whenever the roster is non-empty exactly one player has isHost = true, and no
\* event changes which player that is.
C14_ExactlyOneHost ==
    [][/\ players' # <<>> => Cardinality(Hosts') = 1
       /\ players # <<>> => Hosts' = Hosts]_vars

\* C15: when a question's answering window closes because the timer ran out (the
\* question is scored in an event that stores no submission), every non-spectator
\* player has exactly one Answer for it, and a player who had submitted none has a
\* timeout Answer that is incorrect and leaves the player's score unchanged.
C15_TimeoutAnswerSynthesized ==
    [][LET noSubmission == \A k \in (Len(answers) + 1)..Len(answers') :
                              answers'[k].answer = NullAnswer
       IN  (currentQuestionIndex' = currentQuestionIndex + 1 /\ noSubmission) =>
              \A i \in NonSpectators :
                  LET qid == questions[currentQuestionIndex + 1]
                      before == AnswersOf(answers, qid, i)
                      after == AnswersOf(answers', qid, i)
                  IN  /\ Len(after) = 1
                      /\ Len(before) = 0
                            => /\ ~after[1].isCorrect
                               /\ players'[i].score = players[i].score]_vars

\* C16: while an answering window is open, the event in which the last non-spectator
\* player without an entry for the question submits an answer itself closes the window:
\* the question is scored and the timer's interval is cancelled, so no tick follows.
C16_LastAnswerEndsQuestion ==
    [][\A p \in NonSpectators, a \in AnswerKeys, t \in Times :
          ( /\ WindowOpen
            /\ p \notin currentQuestionAnswers
            /\ NonSpectators \ {p} \subseteq currentQuestionAnswers
            /\ webSocketMessage(p, a, t) )
              => /\ ~timerInterval'
                 /\ currentQuestionIndex' = currentQuestionIndex + 1]_vars

\* C17: a display in the roster is never required to answer: with a display present,
\* no answering window stays open once every non-spectator player has an entry for
\* the question.
C17_SpectatorNotRequiredToAnswer ==
    (WindowOpen /\ displayIds # {}) => ~(NonSpectators \subseteq currentQuestionAnswers)

\* C18: the question timer never ticks outside an open answering window: the interval
\* callback runs only while a question of a game in progress is being asked, the event
\* that ends a question leaves no interval running, and none runs once the session is
\* finished.
C18_NoTickOutsideWindow ==
    [][/\ TimerTick => (status = "playing" /\ currentQuestionIndex < Len(questions))
       /\ currentQuestionIndex' # currentQuestionIndex => ~timerInterval'
       /\ status' = "finished" => ~timerInterval']_vars

\* The scores of the roster, in roster order
Scores(pl) == [i \in 1..Len(pl) |-> pl[i].score]

\* C19: once the phase is Finished, no join, start, answer, attach, detach or timer
\* event changes the roster, a score, the phase, currentQuestionIndex or the question
\* sequence.
C19_FinishedIsFrozen ==
    [][status = "finished" =>
          /\ status' = "finished"
          /\ Scores(players') = Scores(players)
          /\ UNCHANGED <<currentQuestionIndex, questions>>]_vars

\* C20: the question sequence is selected once, in the step from Lobby to Playing, and
\* no other event replaces, reorders or resizes it.
C20_QuestionsSelectedOnce ==
    [][questions' # questions => (status = "lobby" /\ status' = "playing")]_vars

CurrentChannels(pl) == {pl[i].ws : i \in 1..Len(pl)} \ {Null}

\* C22: attaching again for a player makes the new channel that player's only channel;
\* no two players hold the same channel, so a broadcast reaches a channel once; and no
\* message of any event is sent to a channel that is not some player's current one
\* (a replaced channel gets nothing).
C22_LatestChannelOnly ==
    [][/\ \A p \in 1..Len(players) : handleWebSocket(p) => players'[p].ws = nextWs
       /\ \A i, j \in 1..Len(players') :
             (i # j /\ players'[i].ws # Null) => players'[i].ws # players'[j].ws
       /\ \A k \in 1..Len(sent') : sent'[k].to \subseteq CurrentChannels(players')]_vars

\* C22 witness: a player holds the second channel while the replaced first one is still
\* open, and the last event broadcast a timer tick to the second channel only.
C22_Witness ==
    /\ sockets = {1, 2}
    /\ \E p \in 1..Len(players) : players[p].ws = 2
    /\ \A p \in 1..Len(players) : players[p].ws # 1
    /\ sent # <<>>
    /\ sent[1].type = "timer"
    /\ sent[1].to = {2}

\* C23: a channel close changes only channel presence: every player stays in the
\* roster with the same score and role, only the ws of the players that held the closed
\* channel becomes null, and the recorded answers, the phase, currentQuestionIndex,
\* the questions and the running timer are unchanged.
C23_DetachChangesPresenceOnly ==
    [][\A ws \in sockets :
          webSocketClose(ws)
              => /\ UNCHANGED <<status, maxPlayers, questionCount, currentQuestionIndex,
                                questions, answers, currentQuestionAnswers, timer,
                                timerInterval, pendingNext>>
                 /\ Len(players') = Len(players)
                 /\ \A i \in 1..Len(players) :
                       players'[i] = [players[i] EXCEPT
                                         !.ws = IF @ = ws THEN Null ELSE @]]_vars

\* C23 witness: a player's second channel was closed while a question's timer was
\* running (the replaced first channel is still open, no player holds a channel).
C23_Witness ==
    /\ nextWs = 3
    /\ sockets = {1}
    /\ \A i \in 1..Len(players) : players[i].ws = Null
    /\ timerInterval
    /\ timer < QuestionSeconds

\* C24: when a send to one attached channel fails during the results broadcast, the
\* payload is still delivered to every other attached channel, the failing channel is
\* treated as detached, and the event completes: currentQuestionIndex is advanced and
\* the next question is scheduled.
C24_SendFailureIsContained ==
    [][\A k \in 1..Len(sent') :
          sent'[k].type = "send_failed" =>
             /\ \E m \in 1..Len(sent') :
                   /\ sent'[m].type = "results"
                   /\ sent'[m].to = Recipients(players) \ sent'[k].to
             /\ sent'[k].to \cap CurrentChannels(players') = {}
             /\ currentQuestionIndex' = currentQuestionIndex + 1
             /\ pendingNext' = pendingNext + 1]_vars

\* C25: if a known player's channel is attached while a question is in its answering
\* window, the new channel is sent that question and the current timer value; and an
\* answer of a player without an entry for the question, sent while the window is
\* open, is stored for that question.
C25_ReconnectMidQuestion ==
    [][\A p \in 1..Len(players) :
          (WindowOpen /\ currentQuestionIndex < Len(questions)) =>
             /\ handleWebSocket(p) =>
                   /\ \E k \in 1..Len(sent') :
                         sent'[k] = Msg("question", currentQuestionIndex + 1, {nextWs})
                   /\ \E k \in 1..Len(sent') : sent'[k] = Msg("timer", timer, {nextWs})
             /\ \A a \in AnswerKeys, t \in Times :
                   (p \notin currentQuestionAnswers /\ webSocketMessage(p, a, t)) =>
                      /\ Len(answers') = Len(answers) + 1
                      /\ answers'[Len(answers')].playerId = p
                      /\ answers'[Len(answers')].questionId
                            = questions[currentQuestionIndex + 1]]_vars

\* C25 witness: the last event attached a player's channel in the middle of a question
\* (the timer had already ticked) and sent it the question and the timer.
C25_Witness ==
    /\ Len(sent) = 4
    /\ sent[1] = Http(101)
    /\ sent[3].type = "question"
    /\ sent[4].type = "timer"
    /\ sent[4].n < QuestionSeconds
    /\ timerInterval

\* C26: a malformed inbound message - a non-string frame, invalid JSON, an unknown
\* message type, or an 'answer' message with a missing field - is discarded: the
\* session state is unchanged, nothing is sent and the channel stays open.
C26_MalformedMessageDiscarded ==
    [][/\ \A ws \in sockets, kind \in FrameKinds \ {"ping"} :
             webSocketFrame(ws, kind) => (UNCHANGED <<core, sockets>> /\ sent' = <<>>)
       /\ \A p \in Ids, a \in AnswerKeys :
             webSocketMessage(p, a, Undefined)
                 => (UNCHANGED <<core, sockets>> /\ sent' = <<>>)]_vars

\* The scores along ranking r do not increase
SortedByScore(pl, r) ==
    \A i \in 1..(Len(pl) - 1) : Geq(pl[r[i]].score, pl[r[i + 1]].score)

\* C27: the ranked player list of the game_ended broadcast and of the results query is
\* in non-increasing order of score, the winner of the results query (the first of the
\* list) has the maximum score, and serving the results query changes no session state.
C27_RankingSortedByScore ==
    [][/\ (status # "finished" /\ status' = "finished")
             => \A r \in Rankings(players') : SortedByScore(players', r)
       /\ (players # <<>> /\ handleGetResults)
             => /\ UNCHANGED <<core, sockets>>
                /\ \A r \in Rankings(players) :
                      /\ SortedByScore(players, r)
                      /\ players[r[1]].score = highestScore(players)
                      /\ \A i \in 1..Len(players) :
                            Geq(players[r[1]].score, players[i].score)]_vars

\* What endQuestion awards for one Answer of the room
PointsOf(a) == IF a.isCorrect THEN RoomPoints(a.timeTakenMs) ELSE 0

\* The room's half of C28: a roster score changes only in the event that ends the
\* question, and then by the points of the player's one Answer for that question.
RoomScoreChangesOnlyAtReveal ==
    [][\A i \in 1..Min(Len(players), Len(players')) :
          LET mine == AnswersOf(answers', questions[currentQuestionIndex + 1], i)
          IN  /\ players'[i].score # players[i].score
                    => currentQuestionIndex' = currentQuestionIndex + 1
              /\ (currentQuestionIndex' = currentQuestionIndex + 1 /\ Len(mine) > 0)
                    => players'[i].score = Add(players[i].score, PointsOf(mine[1]))]_vars

\* C28: a player's score changes only in the event that closes a question's answering
\* window, and then by exactly the points of that player's single Answer for the
\* question; the event that accepts (stores) an answer submission changes no score
\* unless it is the event that closes the window.
C28_ScoreChangesOnlyAtReveal ==
    [][/\ \A i \in 1..Min(Len(players), Len(players')) :
             LET mine == AnswersOf(answers', questions[currentQuestionIndex + 1], i)
             IN  /\ players'[i].score # players[i].score
                       => currentQuestionIndex' = currentQuestionIndex + 1
                 /\ (currentQuestionIndex' = currentQuestionIndex + 1 /\ Len(mine) > 0)
                       => players'[i].score = Add(players[i].score, PointsOf(mine[1]))
       /\ Len(playerAnswers') = Len(playerAnswers) + 1 => dbScore' = dbScore]_vars

\* C29: a results message for question i, which carries its correct key, is only sent
\* to clients after the question message for question i was broadcast, that is, while
\* the answering window that this broadcast opened is still open.
C29_ResultsOnlyAfterQuestion ==
    [][\A k \in 1..Len(sent') :
          (sent'[k].type = "results" /\ sent'[k].to # {})
              => /\ WindowOpen
                 /\ sent'[k].n = currentQuestionIndex + 1]_vars

\* C30: in the event that broadcasts a question, no Answer for that question is
\* recorded (none was stored before its window opened), the set of players that
\* answered it is empty, and the timer equals the seconds per question.
C30_QuestionStartsClean ==
    [][(NextQuestionTimeout /\ currentQuestionIndex < Len(questions))
          => /\ \E k \in 1..Len(sent') :
                   sent'[k] = broadcast(players, "question", currentQuestionIndex + 1)
             /\ timer' = QuestionSeconds
             /\ currentQuestionAnswers' = {}
             /\ \A k \in 1..Len(answers') :
                   answers'[k].questionId # questions[currentQuestionIndex + 1]]_vars

\* C31: the tick that brings the timer to 0 ends the answering window in the same
\* event (the question is scored and the interval cancelled), and no answer message
\* is stored once the timer has reached 0.
C31_TickToZeroEndsQuestion ==
    [][/\ (TimerTick /\ timer = 1)
             => /\ timer' = 0
                /\ ~timerInterval'
                /\ currentQuestionIndex' = currentQuestionIndex + 1
       /\ \A p \in Ids, a \in AnswerKeys, t \in Times :
             (WindowOpen /\ timer = 0 /\ webSocketMessage(p, a, t))
                 => answers' = answers]_vars

\* C32: the questions are cycled one at a time and in order: a question is broadcast
\* only when no question is being asked (so no question is broadcast again while its
\* window is open), the index moves on by exactly one and only from an open window,
\* with one results message for that index, and never otherwise.
C32_OneCyclePerQuestion ==
    [][/\ (NextQuestionTimeout /\ currentQuestionIndex < Len(questions)) => ~WindowOpen
       /\ currentQuestionIndex' # currentQuestionIndex
             => /\ currentQuestionIndex' = currentQuestionIndex + 1
                /\ WindowOpen
                /\ Cardinality({k \in 1..Len(sent') : sent'[k].type = "results"}) = 1
       /\ \A k \in 1..Len(sent') :
             sent'[k].type = "results"
                 => /\ sent'[k].n = currentQuestionIndex + 1
                    /\ currentQuestionIndex' = currentQuestionIndex + 1]_vars

\* The second conjunct of C32 left out: a question is broadcast only when no question
\* is being asked.
QuestionNotBroadcastAgain ==
    [][(NextQuestionTimeout /\ currentQuestionIndex < Len(questions)) => ~WindowOpen]_vars

\* C33: an Answer is recorded against the question whose answering window is open
\* when the submission is processed; a submission processed after the window was closed
\* (between a question's results and the next question's broadcast) is not recorded
\* against the following question.
C33_AnswerAttributedToOpenQuestion ==
    [][\A k \in (Len(answers) + 1)..Len(answers') :
          /\ answers'[k].questionId = questions[currentQuestionIndex + 1] => ~Revealing
          /\ WindowOpen => answers'[k].questionId = questions[currentQuestionIndex + 1]]_vars

\* C34: at most one advance of the question cycle is pending: never more than one
\* nextQuestion timeout is outstanding, and none is outstanding while a question timer
\* interval is running.
C34_OneAdvancePending ==
    /\ pendingNext <= 1
    /\ ~(pendingNext > 0 /\ timerInterval)

\* The messages of the game in progress
GameMessages == {"question", "timer", "results", "game_ended"}

\* C35: game_ended is broadcast once: once the session is finished (game_ended was
\* broadcast), no event broadcasts game_ended again or a question, timer or results
\* message.
C35_GameEndedOnce ==
    [][status = "finished" =>
          \A k \in 1..Len(sent') : sent'[k].type \notin GameMessages]_vars

\* C36: the question replayed to a player on attach has already been broadcast to
\* the room: an attach sends a question message only while that question's answering
\* window is open, never during the start delay or between a question's results and
\* the broadcast of the next question.
C36_ReplayOnlyBroadcastQuestion ==
    [][\A p \in Ids :
          handleWebSocket(p) =>
             \A k \in 1..Len(sent') : sent'[k].type = "question" => WindowOpen]_vars

\* C37: the close event of a channel that a newer channel has replaced does not detach
\* the player: no player's ws changes, and the channels that broadcasts reach stay
\* the same, so the newer channel keeps receiving them.
C37_StaleCloseKeepsNewChannel ==
    [][\A ws \in sockets :
          (ws \notin CurrentChannels(players) /\ webSocketClose(ws))
              => /\ players' = players
                 /\ Recipients(players)' = Recipients(players)]_vars

\* C37 witness: the replaced first channel was closed, the player still holds the
\* second one, and the last event broadcast a timer tick to it.
C37_Witness ==
    /\ sockets = {2}
    /\ nextWs = 3
    /\ \E p \in 1..Len(players) : players[p].ws = 2
    /\ sent # <<>>
    /\ sent[1].type = "timer"
    /\ sent[1].to = {2}

\* The sum of pointsEarned over the rows
RECURSIVE SumPoints(_)
SumPoints(rows) == IF rows = <<>> THEN 0 ELSE Head(rows).pointsEarned + SumPoints(Tail(rows))

\* C38: in the HTTP answer route, submissions processed concurrently leave at most one
\* player_answers row per player and question, and once they are all answered the
\* player's stored score is the sum of the points of the recorded rows (no double
\* award, no lost update).
C38_ConcurrentSubmissionsOneRow ==
    /\ \A i, j \in 1..Len(playerAnswers) :
          (i # j /\ playerAnswers[i].playerId = playerAnswers[j].playerId)
              => playerAnswers[i].questionId # playerAnswers[j].questionId
    /\ (\A r \in 1..MaxRequests : requests[r].pc = "idle")
          => dbScore = SumPoints(playerAnswers)

\* The second conjunct of C38 alone: with no request in progress the stored score is
\* the sum of the points of the recorded rows.
NoLostScoreUpdate ==
    (\A r \in 1..MaxRequests : requests[r].pc = "idle")
        => dbScore = SumPoints(playerAnswers)

\* C39: whenever the timer is set it lies between 0 and the seconds per question,
\* a tick that changes it decreases it by exactly 1, and it never becomes negative.
C39_TimerWithinRange ==
    [][/\ timer' # NoTimer => (timer' >= 0 /\ timer' <= QuestionSeconds)
       /\ (TimerTick /\ timer' # timer) => timer' = timer - 1
       /\ (TimerTick /\ timer # NoTimer /\ timer > 0) => timer' = timer - 1]_vars

\* C39 witness: the timer has been counted down to 0 and the interval is still running,
\* so one more tick follows.
C39_Witness ==
    /\ timer = 0
    /\ timerInterval
    /\ sent = <<broadcast(players, "timer", 0)>>

====
